---- MODULE Spec2Model ----
(***************************************************************************)
(* The vite-hono starter: the Hono API service of packages/be/src/index.ts *)
(* (two GET routes over the in-memory list `todos`) and the client demo    *)
(* route (fetchTodos + useQuery + TanStackQueryDemo) that reads it.        *)
(*                                                                         *)
(* An HTTP body is the sequence of lexemes the sender wrote; JSONStringify *)
(* and JSONParse convert between values and bodies.                        *)
(***************************************************************************)
EXTENDS Integers, Sequences, FiniteSets, TLC

\* ------------------------------------------------------------------ bounds
\* Requests from other callers (any method, any path) the API service serves.
MaxRequests == 2
\* Components that may mount the demo route's query.
NumConsumers == 3

\* ------------------------------------------------------------ JSON values
Undefined == [kind |-> "undefined"]
SyntaxError == [kind |-> "SyntaxError"]
JsonArray(items) == [kind |-> "array", items |-> items]
JsonObject(v) == [kind |-> "object", todos |-> v]

Quote(s) == "\"" \o s \o "\""

\* Property names and string values a body of this system can hold.
JsonStrings == {"Alice", "Bob", "Hehe", "id", "name", "todos"}
\* Numbers a body of this system can hold.
JsonNumbers == 0 .. (3 + MaxRequests)

\* JSON.stringify of one { id, name } record: nine lexemes.
JSONStringifyRecord(r) ==
    << "{", Quote("id"), ":", ToString(r.id), ",",
       Quote("name"), ":", Quote(r.name), "}" >>

RECURSIVE JSONStringifyItems(_)
JSONStringifyItems(l) ==
    IF l = << >> THEN << >>
    ELSE IF Len(l) = 1 THEN JSONStringifyRecord(l[1])
    ELSE JSONStringifyRecord(l[1]) \o << "," >> \o JSONStringifyItems(Tail(l))

\* JSON.stringify of an array of records.
JSONStringify(l) == << "[" >> \o JSONStringifyItems(l) \o << "]" >>

\* JSON.stringify of { todos: [...] }.
JSONStringifyWrapped(l) ==
    << "{", Quote("todos"), ":" >> \o JSONStringify(l) \o << "}" >>

IsNumberLexeme(t) == \E n \in JsonNumbers : ToString(n) = t
ParseNumber(t) == CHOOSE n \in JsonNumbers : ToString(n) = t
IsStringLexeme(t) == \E s \in JsonStrings : Quote(s) = t
ParseString(t) == CHOOSE s \in JsonStrings : Quote(s) = t

IsRecordLexemes(t) ==
    /\ Len(t) = 9
    /\ t[1] = "{" /\ t[2] = Quote("id") /\ t[3] = ":" /\ IsNumberLexeme(t[4])
    /\ t[5] = "," /\ t[6] = Quote("name") /\ t[7] = ":" /\ IsStringLexeme(t[8])
    /\ t[9] = "}"
ParseRecord(t) == [id |-> ParseNumber(t[4]), name |-> ParseString(t[8])]

RECURSIVE IsItemsLexemes(_)
IsItemsLexemes(t) ==
    /\ Len(t) >= 9
    /\ IsRecordLexemes(SubSeq(t, 1, 9))
    /\ \/ Len(t) = 9
       \/ /\ Len(t) > 10
          /\ t[10] = ","
          /\ IsItemsLexemes(SubSeq(t, 11, Len(t)))

RECURSIVE ParseItems(_)
ParseItems(t) ==
    IF Len(t) = 9 THEN << ParseRecord(t) >>
    ELSE << ParseRecord(SubSeq(t, 1, 9)) >> \o ParseItems(SubSeq(t, 11, Len(t)))

IsArrayLexemes(t) ==
    /\ Len(t) >= 2
    /\ t[1] = "[" /\ t[Len(t)] = "]"
    /\ \/ Len(t) = 2
       \/ IsItemsLexemes(SubSeq(t, 2, Len(t) - 1))
ParseArray(t) ==
    IF Len(t) = 2 THEN JsonArray(<< >>)
    ELSE JsonArray(ParseItems(SubSeq(t, 2, Len(t) - 1)))

IsWrappedLexemes(t) ==
    /\ Len(t) >= 6
    /\ t[1] = "{" /\ t[2] = Quote("todos") /\ t[3] = ":" /\ t[Len(t)] = "}"
    /\ IsArrayLexemes(SubSeq(t, 4, Len(t) - 1))

\* JSON.parse of a body: the value, or a SyntaxError.
JSONParse(t) ==
    IF IsArrayLexemes(t) THEN ParseArray(t)
    ELSE IF IsWrappedLexemes(t) THEN JsonObject(ParseArray(SubSeq(t, 4, Len(t) - 1)))
    ELSE SyntaxError

\* ------------------------------------------------------------ API service
Methods == {"GET", "POST", "PUT", "DELETE"}
Paths == {"/", "/api/todos", "/api/other"}
Request(m, p) == [method |-> m, path |-> p]
NoRequest == Request("", "")

HttpResponse(st, ct, b) == [status |-> st, contentType |-> ct, body |-> b]
NoResponse == HttpResponse(0, "", << >>)

\* c.text(s) and c.json(v): status 200 unless given.
text(s) == HttpResponse(200, "text/plain", << s >>)
json(v) == HttpResponse(200, "application/json", JSONStringify(v))

\* The list as the module sets it at load.
InitialTodos_duplicateId ==
    << [id |-> 1, name |-> "Alice"],
       [id |-> 2, name |-> "Bob"],
       [id |-> 2, name |-> "Hehe"] >>
InitialTodos ==
    << [id |-> 1, name |-> "Alice"],
       [id |-> 2, name |-> "Bob"],
       [id |-> 3, name |-> "Hehe"] >>

\* app.get("/", c => c.text("Hello Hono!"))
getRoot_asJson == HttpResponse(200, "application/json", << Quote("Hello Hono!") >>)
getRoot == text("Hello Hono!")

\* app.get("/api/todos", c => c.json(todos))
getTodos_wrapped(list) ==
    HttpResponse(200, "application/json", JSONStringifyWrapped(list))
getTodos(list) == json(list)

\* No route matches: Hono's default not-found response.
notFound == HttpResponse(404, "text/plain", << "404 Not Found" >>)

\* app.fetch: the first registered route whose method and path match.
appFetch_routesSwapped(req, list) ==
    IF req.method = "GET" /\ req.path = "/" THEN getTodos(list)
    ELSE IF req.method = "GET" /\ req.path = "/api/todos" THEN getRoot
    ELSE notFound
appFetch_prefixMatch(req, list) ==
    IF req.method = "GET" /\ req.path = "/" THEN getRoot
    ELSE IF req.method = "GET" /\ req.path \in {"/api/todos", "/api/other"}
    THEN getTodos(list)
    ELSE notFound
appFetch(req, list) ==
    IF req.method = "GET" /\ req.path = "/" THEN getRoot
    ELSE IF req.method = "GET" /\ req.path = "/api/todos" THEN getTodos(list)
    ELSE notFound

\* The list after a request is served: no handler assigns or mutates it.
todosAfter_postAppends(req, list) ==
    IF req.method = "POST" /\ req.path = "/api/todos"
    THEN Append(list, [id |-> Len(list) + 1, name |-> "Bob"])
    ELSE list
todosAfter(req, list) == list

\* export default { fetch: app.fetch, port: 3333 }: the port the service
\* listens on, whatever PORT the environment sets (0: not set).
EnvPorts == {0, 8080}
listenPort_fromEnv(envPort) == IF envPort # 0 THEN envPort ELSE 3333
listenPort(envPort) == 3333

VARIABLES
    port,        \* the port the API service listens on
    todos,       \* the in-memory list of the API service
    served,      \* requests of other callers served so far
    lastReq,     \* the request served last
    lastResp,    \* the response it got
    firstTodos   \* the body of the first response to GET /api/todos, << >> before it

serverVars == << port, todos, served, lastReq, lastResp, firstTodos >>

ServerInit ==
    /\ \E envPort \in EnvPorts : port = listenPort(envPort)
    /\ todos = InitialTodos
    /\ served = 0
    /\ lastReq = NoRequest
    /\ lastResp = NoResponse
    /\ firstTodos = << >>

\* The API service serves req.
Serve(req) ==
    LET resp == appFetch(req, todos) IN
    /\ lastReq' = req
    /\ lastResp' = resp
    /\ firstTodos' = IF firstTodos = << >> /\ req = Request("GET", "/api/todos")
                     THEN resp.body ELSE firstTodos
    /\ todos' = todosAfter(req, todos)
    /\ port' = port

\* Another caller sends any request.
ExternalRequest(m, p) ==
    /\ served < MaxRequests
    /\ served' = served + 1
    /\ Serve(Request(m, p))

\* ----------------------------------------------------- client application
Consumers == 1 .. NumConsumers

\* queryKey: ['todos']
queryKey_perConsumer(c) == << "todos", ToString(c) >>
queryKey(c) == << "todos" >>

\* Every key the query cache may hold.
Keys == { << "todos" >> } \cup { << "todos", ToString(c) >> : c \in Consumers }

\* The Response object the client's fetch resolves to.
Response(st, b) == [status |-> st, ok |-> st \in 200 .. 299, body |-> b]
NoClientResponse == [status |-> 0, ok |-> FALSE, body |-> << >>]

NoError == [isNull |-> TRUE, message |-> ""]
Error(m) == [isNull |-> FALSE, message |-> m]

NotOkMessage == "Network response was not ok"
NetworkErrorMessage == "Network error"
JsonErrorMessage == "Unexpected end of JSON input"

\* fetch('/api/todos'): a GET without a body.
FetchRequest_post == Request("POST", "/api/todos")
FetchRequest == Request("GET", "/api/todos")

\* Statuses and bodies a mocked fetch may resolve with; the payloads have the
\* type fetchTodos declares, the last body is cut short.
MockStatuses == {200, 201, 304, 404, 500}
MockPayloads ==
    { << >>, << [id |-> 2, name |-> "Bob"], [id |-> 1, name |-> "Alice"] >> }
MockBodies == { JSONStringify(l) : l \in MockPayloads } \cup { << "[", "{" >> }

\* await sleep(1000)
DelayMs == 1000
sleepDeadline_skipped(t) == t
sleepDeadline(t) == t + DelayMs

\* if (!response.ok) throw new Error('Network response was not ok')
throwsNotOk_never(response) == FALSE
throwsNotOk_only4xx(response) == response.status >= 400
throwsNotOk(response) == ~response.ok

\* defaultOptions: { queries: { retry: false } }
shouldRetry_thrice(failureCount) == failureCount < 3
shouldRetry(failureCount) == FALSE

\* A query of the cache before its first fetch.
NewQuery ==
    [status |-> "pending", fetchStatus |-> "idle", data |-> Undefined,
     error |-> NoError, fetchFailureCount |-> 0]

\* The query as a fetch starts: without data it goes back to pending.
fetchState(qs) ==
    IF qs.data = Undefined
    THEN [qs EXCEPT !.fetchStatus = "fetching", !.fetchFailureCount = 0,
                    !.status = "pending", !.error = NoError]
    ELSE [qs EXCEPT !.fetchStatus = "fetching", !.fetchFailureCount = 0]

\* The query as queryFn's promise rejects for good, and as it resolves.
errorState(qs, err) ==
    [qs EXCEPT !.status = "error", !.error = err, !.fetchStatus = "idle",
               !.fetchFailureCount = @ + 1]
successState(qs, v) ==
    [qs EXCEPT !.status = "success", !.data = v, !.error = NoError,
               !.fetchStatus = "idle", !.fetchFailureCount = 0]

\* No invocation of fetchTodos, and one that has just called fetch.
\* origin tells who answered the call's request: "server", "mock" or nobody yet.
NoCall ==
    [pc |-> "none", response |-> NoClientResponse, respondedAt |-> 0,
     sleepUntil |-> 0, origin |-> "none"]
NewCall ==
    [pc |-> "fetch", response |-> NoClientResponse, respondedAt |-> 0,
     sleepUntil |-> 0, origin |-> "none"]

VARIABLES
    observers,   \* the mounted consumers
    query,       \* the query cache: key -> query state
    call,        \* key -> the invocation of fetchTodos made for that query
    sent,        \* the requests the client has sent, in order
    now          \* the client's clock, in ms

clientVars == << observers, query, call, sent, now >>
vars == << serverVars, clientVars >>

ClientInit ==
    /\ observers = {}
    /\ query = [k \in Keys |-> NewQuery]
    /\ call = [k \in Keys |-> NoCall]
    /\ sent = << >>
    /\ now = 0

\* const { data, isLoading, error } = useQuery(...)
isLoading(qs) == qs.status = "pending" /\ qs.fetchStatus = "fetching"

Names_reversed(items) ==
    [i \in 1 .. Len(items) |-> items[Len(items) + 1 - i].name]
Names(items) == [i \in 1 .. Len(items) |-> items[i].name]

\* What TanStackQueryDemo returns for a query state.
View(panel, t, items) == [panel |-> panel, text |-> t, items |-> items]
TanStackQueryDemo_isFetching(qs) ==
    IF qs.fetchStatus = "fetching" THEN View("loading", "Loading...", << >>)
    ELSE IF ~qs.error.isNull
    THEN View("error", "Error: " \o qs.error.message, << >>)
    ELSE View("list", "TanStack Query - Fetch from Backend",
              IF qs.data = Undefined THEN << >> ELSE Names(qs.data.items))
TanStackQueryDemo_dataFirst(qs) ==
    IF isLoading(qs) THEN View("loading", "Loading...", << >>)
    ELSE IF qs.data # Undefined
    THEN View("list", "TanStack Query - Fetch from Backend", Names(qs.data.items))
    ELSE IF ~qs.error.isNull
    THEN View("error", "Error: " \o qs.error.message, << >>)
    ELSE View("list", "TanStack Query - Fetch from Backend", << >>)
TanStackQueryDemo_genericError(qs) ==
    IF isLoading(qs) THEN View("loading", "Loading...", << >>)
    ELSE IF ~qs.error.isNull
    THEN View("error", "Error: Something went wrong", << >>)
    ELSE View("list", "TanStack Query - Fetch from Backend",
              IF qs.data = Undefined THEN << >> ELSE Names(qs.data.items))
TanStackQueryDemo_errorFirst(qs) ==
    IF ~qs.error.isNull
    THEN View("error", "Error: " \o qs.error.message, << >>)
    ELSE IF isLoading(qs) THEN View("loading", "Loading...", << >>)
    ELSE View("list", "TanStack Query - Fetch from Backend",
              IF qs.data = Undefined THEN << >> ELSE Names(qs.data.items))
TanStackQueryDemo(qs) ==
    IF isLoading(qs) THEN View("loading", "Loading...", << >>)
    ELSE IF ~qs.error.isNull
    THEN View("error", "Error: " \o qs.error.message, << >>)
    ELSE View("list", "TanStack Query - Fetch from Backend",
              IF qs.data = Undefined THEN << >> ELSE Names(qs.data.items))

\* What consumer c shows.
Rendered(c) == TanStackQueryDemo(query[queryKey(c)])

\* A consumer mounts: useQuery subscribes it to the query of its key, and the
\* query fetches unless a fetch for it is already in flight.
Mount(c) ==
    LET k == queryKey(c) IN
    /\ c \notin observers
    /\ observers' = observers \cup {c}
    /\ IF query[k].fetchStatus = "idle"
       THEN /\ query' = [query EXCEPT ![k] = fetchState(@)]
            /\ call' = [call EXCEPT ![k] = NewCall]
            /\ sent' = Append(sent, [key |-> k, request |-> FetchRequest])
       ELSE UNCHANGED << query, call, sent >>
    /\ UNCHANGED << now, serverVars >>

\* The API service answers the outstanding request of query k.
ServerRespond(k) ==
    /\ call[k].pc = "fetch"
    /\ Serve(FetchRequest)
    /\ LET resp == appFetch(FetchRequest, todos) IN
       call' = [call EXCEPT ![k].pc = "fetchFulfilled",
                            ![k].response = Response(resp.status, resp.body),
                            ![k].respondedAt = now,
                            ![k].origin = "server"]
    /\ UNCHANGED << served, observers, query, sent, now >>

\* A mocked fetch resolves with any status and body.
MockRespond(k, st, b) ==
    /\ call[k].pc = "fetch"
    /\ call' = [call EXCEPT ![k].pc = "fetchFulfilled",
                            ![k].response = Response(st, b),
                            ![k].respondedAt = now,
                            ![k].origin = "mock"]
    /\ UNCHANGED << serverVars, observers, query, sent, now >>

\* The network call itself fails: fetch rejects.
FetchReject(k) ==
    /\ call[k].pc = "fetch"
    /\ call' = [call EXCEPT ![k].pc = "fetchRejected"]
    /\ UNCHANGED << serverVars, observers, query, sent, now >>

\* queryFn's promise rejects with err: retried if the client's options say so,
\* otherwise the query enters the error state.
Fail(k, err) ==
    IF shouldRetry(query[k].fetchFailureCount)
    THEN /\ query' = [query EXCEPT ![k].fetchFailureCount = @ + 1]
         /\ call' = [call EXCEPT ![k] = NewCall]
         /\ sent' = Append(sent, [key |-> k, request |-> FetchRequest])
    ELSE /\ query' = [query EXCEPT ![k] = errorState(@, err)]
         /\ call' = [call EXCEPT ![k].pc = "none"]
         /\ sent' = sent

\* fetchTodos resumes after `await fetch`: a rejection propagates, a response
\* that is not ok throws, any other response starts the delay.
ResumeAfterFetch(k) ==
    /\ call[k].pc \in {"fetchFulfilled", "fetchRejected"}
    /\ IF call[k].pc = "fetchRejected"
       THEN Fail(k, Error(NetworkErrorMessage))
       ELSE IF throwsNotOk(call[k].response)
       THEN Fail(k, Error(NotOkMessage))
       ELSE /\ call' = [call EXCEPT ![k].pc = "sleep",
                                    ![k].sleepUntil = sleepDeadline(now)]
            /\ UNCHANGED << query, sent >>
    /\ UNCHANGED << serverVars, observers, now >>

\* Time passes while a delay is running.
Tick ==
    /\ \E k \in Keys : call[k].pc = "sleep" /\ now < call[k].sleepUntil
    /\ now' = now + (DelayMs \div 2)
    /\ UNCHANGED << serverVars, observers, query, call, sent >>

\* The delay is over: fetchTodos returns response.json().
TimerFires_refetch(k) ==
    /\ call[k].pc = "sleep"
    /\ now >= call[k].sleepUntil
    /\ call' = [call EXCEPT ![k].pc = "json"]
    /\ sent' = Append(sent, [key |-> k, request |-> FetchRequest])
    /\ UNCHANGED << serverVars, observers, query, now >>
TimerFires_neverResolves(k) ==
    /\ FALSE
    /\ UNCHANGED vars
TimerFires(k) ==
    /\ call[k].pc = "sleep"
    /\ now >= call[k].sleepUntil
    /\ call' = [call EXCEPT ![k].pc = "json"]
    /\ UNCHANGED << serverVars, observers, query, sent, now >>

\* response.json() settles: the parsed body becomes the query's data, a body
\* that does not parse rejects.
JsonSettled(k) ==
    /\ call[k].pc = "json"
    /\ LET v == JSONParse(call[k].response.body) IN
       IF v = SyntaxError
       THEN Fail(k, Error(JsonErrorMessage))
       ELSE /\ query' = [query EXCEPT ![k] = successState(@, v)]
            /\ call' = [call EXCEPT ![k].pc = "none"]
            /\ sent' = sent
    /\ UNCHANGED << serverVars, observers, now >>

Init == ServerInit /\ ClientInit

Next ==
    \/ \E m \in Methods, p \in Paths :
          ExternalRequest(m, p) /\ UNCHANGED clientVars
    \/ \E c \in Consumers : Mount(c)
    \/ \E k \in Keys : ServerRespond(k)
    \/ \E k \in Keys, st \in MockStatuses, b \in MockBodies : MockRespond(k, st, b)
    \/ \E k \in Keys : FetchReject(k)
    \/ \E k \in Keys : ResumeAfterFetch(k)
    \/ Tick
    \/ \E k \in Keys : TimerFires(k)
    \/ \E k \in Keys : JsonSettled(k)

Spec == Init /\ [][Next]_vars

\* The network delivers a response or a failure to every request, the event
\* loop resumes fetchTodos, and the delay's timer runs and fires.
Deliver ==
    \E k \in Keys :
        \/ ServerRespond(k)
        \/ FetchReject(k)
        \/ \E st \in MockStatuses, b \in MockBodies : MockRespond(k, st, b)
FairSpec ==
    /\ Spec
    /\ WF_vars(Deliver)
    /\ WF_vars(\E k \in Keys : ResumeAfterFetch(k))
    /\ WF_vars(Tick)
    /\ WF_vars(\E k \in Keys : TimerFires(k))
    /\ WF_vars(\E k \in Keys : JsonSettled(k))

\* ------------------------------------------- the component as a function
\* Every { data, isLoading, error } a useQuery result can be read as.
HookResults ==
    { [status |-> s, fetchStatus |-> f, data |-> d, error |-> e,
       fetchFailureCount |-> 0] :
        s \in {"pending", "error", "success"},
        f \in {"idle", "fetching"},
        d \in {Undefined} \cup { JsonArray(l) : l \in MockPayloads \cup {InitialTodos} },
        e \in {NoError, Error(NotOkMessage), Error(NetworkErrorMessage),
               Error(JsonErrorMessage)} }

\* A consumer renders TanStackQueryDemo.
RenderMount(c) ==
    /\ c \notin observers
    /\ observers' = observers \cup {c}
    /\ UNCHANGED << serverVars, query, call, sent, now >>

\* useQuery returns any result to the consumers of a key.
HookReturns(k, qs) ==
    /\ \E c \in observers : queryKey(c) = k
    /\ query' = [query EXCEPT ![k] = qs]
    /\ UNCHANGED << serverVars, observers, call, sent, now >>

RenderNext ==
    \/ \E c \in Consumers : RenderMount(c)
    \/ \E k \in Keys, qs \in HookResults : HookReturns(k, qs)

RenderSpec == Init /\ [][RenderNext]_vars

\* ------------------------------------------------------------------ claims
GetTodos == Request("GET", "/api/todos")
GetRoot == Request("GET", "/")
TodosKey == << "todos" >>

C2_RootIsHelloHono ==
    lastReq = GetRoot =>
        /\ lastResp.status = 200
        /\ lastResp.body = << "Hello Hono!" >>
C2_Witness ==
    /\ lastReq = GetRoot
    /\ served >= 2

\* C3: once fetchTodos has finished on a response whose status is 400 or
\* more, the query is in the error state and holds the error
\* 'Network response was not ok'.
C3_FailingStatusEndsInError ==
    \A k \in Keys :
        (call[k].pc = "none" /\ call[k].response.status >= 400) =>
            /\ query[k].status = "error"
            /\ query[k].fetchStatus = "idle"
            /\ query[k].error = Error("Network response was not ok")
C3_Witness ==
    \E k \in Keys :
        /\ call[k].pc = "none"
        /\ call[k].response.status = 500
        /\ call[k].response.body # << "[", "{" >>
        /\ query[k].status = "error"

\* C4: a fetch that ended in success on an ok response ended no earlier than
\* 1000 ms after the response arrived, and the data held serializes back to
\* the response body (same records, same order); while the delay runs a
\* query without earlier data is still pending.
C4_SuccessAfterDelayWithPayload ==
    \A k \in Keys :
        /\ (call[k].pc = "none" /\ call[k].response.ok
                /\ query[k].status = "success") =>
              /\ now >= call[k].respondedAt + 1000
              /\ query[k].data.kind = "array"
              /\ JSONStringify(query[k].data.items) = call[k].response.body
        /\ (call[k].pc = "sleep" /\ query[k].data = Undefined) =>
              query[k].status = "pending"
C4_Witness ==
    \E k \in Keys :
        /\ call[k].pc = "none"
        /\ call[k].response.ok
        /\ query[k].status = "success"
        /\ Len(query[k].data.items) = 2
        /\ query[k].data.items[1].name = "Bob"

\* C5: a consumer that mounts while a request of the client is outstanding
\* causes no further request, and all mounted consumers always show the same
\* result.
C5_ConcurrentConsumersShareOneRequest ==
    /\ [][ (observers' # observers /\ \E k \in Keys : call[k].pc # "none")
              => sent' = sent ]_vars
    /\ [](\A c1, c2 \in observers : Rendered(c1) = Rendered(c2))
C5_Witness ==
    /\ Cardinality(observers) >= 2
    /\ Len(sent) = 1
    /\ query[TodosKey].status = "success"
    /\ \A c \in observers : Rendered(c).panel = "list"

\* C6: every response to GET /api/todos has the body of the first one,
\* whatever was requested in between.
C6_TodosBodyNeverChanges ==
    (lastReq = GetTodos /\ firstTodos # << >>) => lastResp.body = firstTodos
C6_Witness ==
    /\ lastReq = GetTodos
    /\ served = MaxRequests
    /\ Len(sent) >= 1

\* C7: for every mounted consumer exactly one of pending (isLoading), error
\* (an error is held) and success (data is held, no error, not loading) holds,
\* and the panel shown is the loading panel, the error panel or the list view
\* according to the query's status.
C7_ExactlyOneLifecycleState ==
    \A c \in observers :
        LET qs == query[queryKey(c)]
            pendingHeld == isLoading(qs)
            errorHeld == ~qs.error.isNull
            successHeld == qs.data # Undefined /\ qs.error.isNull /\ ~isLoading(qs)
        IN  /\ Cardinality({ b \in {"p", "e", "s"} :
                     \/ b = "p" /\ pendingHeld
                     \/ b = "e" /\ errorHeld
                     \/ b = "s" /\ successHeld }) = 1
            /\ pendingHeld <=> qs.status = "pending"
            /\ errorHeld <=> qs.status = "error"
            /\ successHeld <=> qs.status = "success"
            /\ Rendered(c).panel = "loading" <=> qs.status = "pending"
            /\ Rendered(c).panel = "error" <=> qs.status = "error"
            /\ Rendered(c).panel = "list" <=> qs.status = "success"
C7_Witness ==
    \E c \in observers :
        /\ query[queryKey(c)].status = "success"
        /\ query[queryKey(c)].fetchStatus = "fetching"

C9_OnlyTheResponseError ==
    \A k \in Keys :
        ~query[k].error.isNull =>
            query[k].error.message = "Network response was not ok"

\* C9 as amended: every error a finished fetch left is 'Network response was
\* not ok' on a response that is not ok, or the rejection of the network call
\* itself, or the failure to parse the body of an ok response.
C9_ThreeErrorSources ==
    \A k \in Keys :
        (call[k].pc = "none" /\ ~query[k].error.isNull) =>
            \/ /\ query[k].error.message = "Network response was not ok"
               /\ call[k].response.status # 0
               /\ ~call[k].response.ok
            \/ /\ query[k].error.message = NetworkErrorMessage
               /\ call[k].response = NoClientResponse
            \/ /\ query[k].error.message = JsonErrorMessage
               /\ call[k].response.ok
               /\ JSONParse(call[k].response.body) = SyntaxError
C9_Witness ==
    \E k \in Keys :
        /\ call[k].pc = "none"
        /\ query[k].error.message = JsonErrorMessage
        /\ query[k].data # Undefined

\* C10: a GET /api/todos is answered with status 200 and a JSON object whose
\* todos field is an array.
C10_TodosFieldIsArray ==
    lastReq = GetTodos =>
        /\ lastResp.status = 200
        /\ LET v == JSONParse(lastResp.body) IN
               v.kind = "object" /\ v.todos.kind = "array"

\* C11: once fetchTodos has finished on a fetch that rejected, the query is
\* in the error state with the rejection as its error, and every consumer of
\* the query shows the error panel with the rejection's message.
C11_RejectedFetchShowsItsMessage ==
    \A k \in Keys :
        (call[k].pc = "none" /\ call[k].origin = "none"
            /\ \E i \in 1 .. Len(sent) : sent[i].key = k) =>
            /\ query[k].status = "error"
            /\ query[k].error = Error("Network error")
            /\ \A c \in observers :
                  queryKey(c) = k =>
                      Rendered(c) = View("error", "Error: Network error", << >>)
C11_Witness ==
    \E k \in Keys :
        /\ call[k].pc = "none"
        /\ call[k].origin = "none"
        /\ query[k].error = Error("Network error")
        /\ query[k].data # Undefined
        /\ \E c \in observers : queryKey(c) = k

C13_ListNeverMutated ==
    todos = << [id |-> 1, name |-> "Alice"],
               [id |-> 2, name |-> "Bob"],
               [id |-> 3, name |-> "Hehe"] >>
C13_Witness ==
    /\ lastReq = Request("DELETE", "/api/todos")
    /\ served = MaxRequests
    /\ todos = InitialTodos

\* C14: as fetchTodos settles on a response, it fails with 'Network response
\* was not ok' exactly if the status is outside 200-299; on a status inside it
\* a body that parses becomes the data, records in order; on a status outside
\* it the data are left as they were.
C14_NotOkIffStatusNotSuccess ==
    [][ \A k \in Keys :
          (call[k].pc # "none" /\ call'[k].pc = "none"
              /\ call[k].response.status # 0) =>
              LET r == call[k].response
                  success == r.status >= 200 /\ r.status <= 299
                  failsNotOk ==
                      /\ query'[k].status = "error"
                      /\ query'[k].error = Error("Network response was not ok")
              IN  /\ failsNotOk <=> ~success
                  /\ (success /\ JSONParse(r.body) # SyntaxError) =>
                        /\ query'[k].status = "success"
                        /\ query'[k].data = JSONParse(r.body)
                        /\ JSONStringify(query'[k].data.items) = r.body
                  /\ ~success => query'[k].data = query[k].data ]_vars
C14_Witness ==
    \E k \in Keys :
        /\ call[k].pc = "none"
        /\ call[k].response.status = 304
        /\ query[k].error = Error("Network response was not ok")
        /\ query[k].data # Undefined

\* C15 as stated: while the delay runs the query is pending.
C15_PendingForWholeDelay ==
    \A k \in Keys : call[k].pc = "sleep" => query[k].status = "pending"

\* C15 as amended: the delay starts as fetchTodos resumes on a received ok
\* response and ends 1000 ms later; while it runs the query is fetching, and
\* pending with the loading panel shown if it holds no earlier data; no
\* request is sent while a delay runs.
C15_DelayAfterResponseNoRequest ==
    /\ [](\A k \in Keys :
            call[k].pc = "sleep" =>
                /\ call[k].response.status # 0
                /\ call[k].response.ok
                /\ call[k].sleepUntil >= call[k].respondedAt + 1000
                /\ query[k].fetchStatus = "fetching"
                /\ query[k].data = Undefined =>
                      /\ query[k].status = "pending"
                      /\ \A c \in observers :
                            queryKey(c) = k => Rendered(c).panel = "loading")
    /\ [][ /\ \A k \in Keys :
                (call[k].pc # "sleep" /\ call'[k].pc = "sleep")
                    => call[k].pc = "fetchFulfilled"
           /\ (\E k \in Keys : call[k].pc = "sleep") => sent' = sent ]_vars
C15_Witness ==
    \E k \in Keys :
        /\ call[k].pc = "sleep"
        /\ now = call[k].respondedAt + 500
        /\ query[k].status = "pending"
        /\ Cardinality(observers) >= 2

\* C16: every request, whatever was served before it and whatever request of
\* the client is in flight, gets the response the service gives it when it
\* is the only request the service ever serves.
ServedAlone(req) == appFetch(req, InitialTodos)
C16_ResponseAsIfServedAlone ==
    /\ lastReq # NoRequest => lastResp = ServedAlone(lastReq)
    /\ \A k \in Keys :
          call[k].origin = "server" =>
              call[k].response = Response(ServedAlone(FetchRequest).status,
                                          ServedAlone(FetchRequest).body)
C16_Witness ==
    /\ \E k \in Keys : call[k].pc = "fetch"
    /\ served = MaxRequests
    /\ lastReq = Request("POST", "/api/todos")
    /\ Len(sent) >= 2

\* C17: a request is sent exactly as an invocation of fetchTodos starts, one
\* GET /api/todos per invocation, and only when no invocation for that query
\* is running; a running or finished invocation sends nothing more.
C17_OneRequestPerInvocation ==
    [][ /\ sent' # sent =>
              \E k \in Keys :
                  /\ sent' = Append(sent, [key |-> k,
                                           request |-> Request("GET", "/api/todos")])
                  /\ call[k].pc = "none"
                  /\ call'[k].pc = "fetch"
        /\ \A k \in Keys :
              (call[k].pc # "fetch" /\ call'[k].pc = "fetch") =>
                  /\ Len(sent') = Len(sent) + 1
                  /\ sent'[Len(sent')].key = k ]_vars
C17_Witness ==
    /\ Len(sent) = 2
    /\ \A k \in Keys : call[k].pc = "none"
    /\ query[TodosKey].status = "success"

\* C18: a fetch the API service answered has its request sent and holds the
\* service's response, status 200 with the three records; the cache is filled
\* only from a received response, and once the fetch has finished the query
\* is in the success state and every consumer shows the list Alice, Bob, Hehe.
C18_ServedFetchShowsTheList ==
    /\ \A k \in Keys :
          call[k].origin = "server" =>
              /\ \E i \in 1 .. Len(sent) : sent[i].key = k
              /\ call[k].response =
                     Response(200, JSONStringify(
                         << [id |-> 1, name |-> "Alice"],
                            [id |-> 2, name |-> "Bob"],
                            [id |-> 3, name |-> "Hehe"] >>))
              /\ call[k].pc = "none" =>
                    /\ query[k].status = "success"
                    /\ \A c \in observers :
                          queryKey(c) = k =>
                              Rendered(c) =
                                  View("list", "TanStack Query - Fetch from Backend",
                                       << "Alice", "Bob", "Hehe" >>)
    /\ \A k \in Keys :
          query[k].data # Undefined => \E i \in 1 .. Len(sent) : sent[i].key = k
C18_Witness ==
    \E k \in Keys :
        /\ call[k].origin = "server"
        /\ call[k].pc = "none"
        /\ \E c \in observers : Rendered(c).items = << "Alice", "Bob", "Hehe" >>

\* C19: every request the client has sent is a GET to /api/todos.
C19_ClientOnlyGetsTodos ==
    \A i \in 1 .. Len(sent) :
        /\ sent[i].request.method = "GET"
        /\ sent[i].request.path = "/api/todos"
        /\ DOMAIN sent[i].request = {"method", "path"}
C19_Witness ==
    /\ Len(sent) = NumConsumers
    /\ lastReq = GetTodos
    /\ served = 0

\* C20: no two records of the list have the same id.
C20_IdsUnique ==
    \A i, j \in 1 .. Len(todos) : i # j => todos[i].id # todos[j].id
C20_Witness ==
    /\ Len(todos) = 3
    /\ served = MaxRequests
    /\ lastReq = Request("POST", "/api/other")

\* C21: a consumer whose query is in the error state shows the error panel
\* with the text 'Error: ' followed by the message of the error held, which
\* for a finished fetch is the message of the error that fetch raised.
C21_ErrorPanelShowsTheMessage ==
    \A c \in observers :
        LET k == queryKey(c)
            qs == query[k]
        IN  qs.status = "error" =>
                /\ Rendered(c).panel = "error"
                /\ Rendered(c).text = "Error: " \o qs.error.message
                /\ call[k].pc = "none" =>
                      Rendered(c).text =
                          IF call[k].origin = "none" THEN "Error: Network error"
                          ELSE IF ~call[k].response.ok
                          THEN "Error: Network response was not ok"
                          ELSE "Error: Unexpected end of JSON input"
C21_Witness ==
    \E c \in observers :
        /\ call[queryKey(c)].pc = "none"
        /\ call[queryKey(c)].response.status = 201
        /\ Rendered(c) = View("error", "Error: Unexpected end of JSON input", << >>)

\* C23: fetchTodos resumed on a response that is not ok fails in that very
\* step with 'Network response was not ok', whatever the body; the delay and
\* the parse are only ever reached on an ok response.
C23_NotOkFailsBeforeDelayAndParse ==
    /\ [](\A k \in Keys :
            /\ call[k].pc \in {"sleep", "json"} => call[k].response.ok
            /\ (call[k].pc = "none" /\ call[k].response.status # 0
                    /\ ~call[k].response.ok) =>
                  /\ call[k].sleepUntil = 0
                  /\ query[k].error = Error("Network response was not ok"))
    /\ [][ \A k \in Keys :
             (call[k].pc = "fetchFulfilled" /\ ~call[k].response.ok
                 /\ call'[k] # call[k]) =>
                 /\ call'[k].pc = "none"
                 /\ call'[k].sleepUntil = 0
                 /\ now' = now
                 /\ query'[k].status = "error" ]_vars
C23_Witness ==
    \E k \in Keys :
        /\ call[k].pc = "none"
        /\ call[k].response.status = 404
        /\ call[k].response.body = << "[", "{" >>
        /\ query[k].error = Error("Network response was not ok")
        /\ call[k].sleepUntil = 0

\* C25: a consumer showing the list view of held data shows one item per
\* record, in the order of the data, each item the record's name.
C25_ListItemsFollowTheData ==
    \A c \in observers :
        LET qs == query[queryKey(c)] IN
        (Rendered(c).panel = "list" /\ qs.data # Undefined) =>
            /\ Len(Rendered(c).items) = Len(qs.data.items)
            /\ \A i \in 1 .. Len(qs.data.items) :
                  Rendered(c).items[i] = qs.data.items[i].name
C25_Witness ==
    \E c \in observers :
        /\ Rendered(c).panel = "list"
        /\ Rendered(c).items = << "Bob", "Alice" >>
        /\ query[queryKey(c)].data.items[1].id = 2

\* C26: a request to a path other than / and /api/todos gets neither the
\* greeting nor the list and no status 200, and leaves the list as loaded.
C26_OnlyTheTwoRoutesAnswer ==
    lastReq.path \notin {"", "/", "/api/todos"} =>
        /\ lastResp.status # 200
        /\ lastResp.body # << "Hello Hono!" >>
        /\ JSONParse(lastResp.body) = SyntaxError
        /\ todos = << [id |-> 1, name |-> "Alice"],
                      [id |-> 2, name |-> "Bob"],
                      [id |-> 3, name |-> "Hehe"] >>
C26_Witness ==
    /\ lastReq = Request("GET", "/api/other")
    /\ lastResp.status = 404
    /\ served = MaxRequests

\* C22 as stated: while no response has arrived the query is pending.
C22_WaitingIsPending ==
    \A k \in Keys : call[k].pc = "fetch" => query[k].status = "pending"

\* C22 as amended: every invocation of fetchTodos eventually finishes and
\* leaves the query in the success or the error state with no fetch in
\* flight; while no response has arrived the query stays as it is, fetching,
\* and pending if it holds no earlier data, and only a response or a
\* failure of the network call ends the wait.
C22_FetchEventuallySettles ==
    /\ \A k \in { queryKey(c) : c \in Consumers } :
          (call[k].pc # "none") ~>
              (/\ call[k].pc = "none"
               /\ query[k].fetchStatus = "idle"
               /\ query[k].status \in {"success", "error"})
    /\ [](\A k \in Keys :
            call[k].pc = "fetch" =>
                /\ query[k].fetchStatus = "fetching"
                /\ query[k].data = Undefined => query[k].status = "pending")
    /\ [][ \A k \in Keys :
             call[k].pc = "fetch" =>
                 /\ call'[k].pc \in {"fetch", "fetchFulfilled", "fetchRejected"}
                 /\ query'[k] = query[k] ]_vars
C22_Witness ==
    \E k \in Keys :
        /\ call[k].pc = "none"
        /\ query[k].status = "success"
        /\ now = 2 * DelayMs
        /\ Len(sent) = 2

\* C24: the loading panel is shown whenever isLoading holds, also with an
\* error held; otherwise the error panel whenever an error is held, also with
\* data held; otherwise the list view, which without data has no items.
C24_PanelByPriority ==
    \A c \in observers :
        LET qs == query[queryKey(c)]
            v == Rendered(c)
        IN  /\ isLoading(qs) => v = View("loading", "Loading...", << >>)
            /\ (~isLoading(qs) /\ ~qs.error.isNull) => v.panel = "error"
            /\ (~isLoading(qs) /\ qs.error.isNull) => v.panel = "list"
            /\ v.panel = "list" => (~isLoading(qs) /\ qs.error.isNull)
            /\ (v.panel = "list" /\ qs.data = Undefined) => v.items = << >>
C24_Witness ==
    \E c \in observers :
        /\ isLoading(query[queryKey(c)])
        /\ ~query[queryKey(c)].error.isNull
        /\ query[queryKey(c)].data # Undefined
        /\ Rendered(c).panel = "loading"
====
